---- MODULE Spec2Model ----
(***************************************************************************)
(* Verification model of the SignaturePricingCalculator component          *)
(* (src/unnamed/part_000): tier classifier, variant resolver, price        *)
(* calculator, catalog normaliser and the checkout hand-off.               *)
(*                                                                         *)
(* JavaScript strings are TLA+ strings (Len, SubSeq and \o work on them in *)
(* TLC).  A JavaScript number that can be NaN is a record                  *)
(* [nan |-> BOOLEAN, v |-> Int]; money amounts carry v in hundredths of a  *)
(* currency unit, counts carry v in units.  null / undefined is the        *)
(* string Null where a string is expected, and <<>> against <<x>> where an *)
(* object is expected.                                                     *)
(***************************************************************************)
EXTENDS Integers, Sequences, FiniteSets

VARIABLES
    \* ---- React state of the component (part_000:52-60) and its props
    initialProducts,    \* the `products` prop: <<>> (null) or <<catalog>>
    products,           \* useState products: <<>> (null) or <<catalog>>
    animationPackages,  \* useState animationPackages: Seq(PricingOption)
    selectedAnimation,  \* useState selectedAnimation: product id or ""
    userCount,          \* useState userCount
    totalPrice,         \* useState totalPrice (a number, hundredths)
    isCustomPricing,    \* useState isCustomPricing
    isSubmitting,       \* useState isSubmitting
    error,              \* useState error: message or Null
    loading,            \* useState loading
    \* ---- the runtime around the component
    effectsPending,     \* effects React has scheduled and not yet run
    fetchesInFlight,    \* number of outstanding /api/shopify requests
    cartCalls,          \* outstanding createCart calls (their arguments)
    location,           \* window.location.href: PricingPage or checkout URL
    propChanges,        \* how often the parent has passed a new products prop
    userEvents,         \* how many clicks and key strokes the user has made
    lastEvent,          \* name of the handler or callback that ran last
    \* ---- harness of the pure functions
    rProduct, rUserCount, rResult, rPc,   \* findVariantForUserCount
    cOption, cLabel, cPc                  \* getDisplayTitle

compVars == <<initialProducts, products, animationPackages, selectedAnimation,
              userCount, totalPrice, isCustomPricing, isSubmitting, error,
              loading, effectsPending, fetchesInFlight, cartCalls, location,
              propChanges, userEvents, lastEvent>>
resolverVars == <<rProduct, rUserCount, rResult, rPc>>
classifierVars == <<cOption, cLabel, cPc>>
vars == <<compVars, resolverVars, classifierVars>>

----------------------------------------------------------------------------
(* Bounds of the model *)

\* longest variant list of a product drawn for the resolver harness
MaxVariants == 3
\* longest product list drawn for the catalog normaliser
MaxProducts == 3
\* largest user count the harness and the component reach
MaxUserCount == 52
\* the harness draws the user counts 1..MaxSmallCount and 49..MaxUserCount
MaxSmallCount == 5
\* most catalog requests outstanding at once
MaxFetches == 1
\* most changes of the products prop after mounting
MaxPropChanges == 1
\* most user events (clicks, input changes) of a session
MaxUserEvents == 4
\* most user events of a session followed under the fairness conditions
MaxFairEvents == 2

(* Program constants *)

USER_PRICE == 50
LargeOrderThreshold == 50
StarterMaxPrice == 950
EssentialMaxPrice == 1450

Null == "<null>"
PricingPage == "/#pricing"

----------------------------------------------------------------------------
(* JavaScript primitives *)

NaN == [nan |-> TRUE, v |-> 0]
Num(n) == [nan |-> FALSE, v |-> n]

Char(s, i) == SubSeq(s, i, i)

Digits == {"0", "1", "2", "3", "4", "5", "6", "7", "8", "9"}
DigitVal(c) ==
    CASE c = "0" -> 0 [] c = "1" -> 1 [] c = "2" -> 2 [] c = "3" -> 3
      [] c = "4" -> 4 [] c = "5" -> 5 [] c = "6" -> 6 [] c = "7" -> 7
      [] c = "8" -> 8 [] c = "9" -> 9
DigitChar(d) == Char("0123456789", d + 1)

\* String.prototype.includes
Includes(s, sub) ==
    \E i \in 1..(Len(s) - Len(sub) + 1) : SubSeq(s, i, i + Len(sub) - 1) = sub

\* String.prototype.toLowerCase on the ASCII letters
LowerChar(c) ==
    LET up == "ABCDEFGHIJKLMNOPQRSTUVWXYZ"
        lo == "abcdefghijklmnopqrstuvwxyz"
    IN IF \E k \in 1..26 : Char(up, k) = c
       THEN Char(lo, CHOOSE k \in 1..26 : Char(up, k) = c)
       ELSE c
RECURSIVE ToLowerCase(_)
ToLowerCase(s) ==
    IF s = "" THEN "" ELSE LowerChar(Char(s, 1)) \o ToLowerCase(SubSeq(s, 2, Len(s)))

\* Number.prototype.toString of an integer
RECURSIVE NatToString(_)
NatToString(n) ==
    IF n < 10 THEN DigitChar(n) ELSE NatToString(n \div 10) \o DigitChar(n % 10)
ToString(n) == IF n < 0 THEN "-" \o NatToString(-n) ELSE NatToString(n)

\* index of the first character of s at or after i that is not white space
RECURSIVE SkipSpace(_, _)
SkipSpace(s, i) ==
    IF i <= Len(s) /\ Char(s, i) = " " THEN SkipSpace(s, i + 1) ELSE i
\* index of the first character of s at or after i that is not a digit
RECURSIVE SkipDigits(_, _)
SkipDigits(s, i) ==
    IF i <= Len(s) /\ Char(s, i) \in Digits THEN SkipDigits(s, i + 1) ELSE i
\* value of the digit string s[i..j-1], read in base 10
RECURSIVE DigitsValue(_, _, _)
DigitsValue(s, i, j) ==
    IF j <= i THEN 0 ELSE DigitsValue(s, i, j - 1) * 10 + DigitVal(Char(s, j - 1))

\* Number.parseInt(s, 10): leading white space, an optional sign, then the
\* longest run of digits; NaN when that run is empty
ParseInt(s) ==
    LET a == SkipSpace(s, 1)
        signed == a <= Len(s) /\ Char(s, a) \in {"-", "+"}
        b == IF signed THEN a + 1 ELSE a
        e == SkipDigits(s, b)
        mag == DigitsValue(s, b, e)
    IN IF e = b THEN NaN
       ELSE Num(IF signed /\ Char(s, a) = "-" THEN -mag ELSE mag)

\* Number.parseFloat(s) of a decimal amount, in hundredths: leading white
\* space, an optional sign, digits, an optional point and fraction digits;
\* NaN when there is no digit.  Catalog amounts carry at most two fraction
\* digits, which is what the hundredths hold.
ParseFloat(s) ==
    LET a == SkipSpace(s, 1)
        signed == a <= Len(s) /\ Char(s, a) \in {"-", "+"}
        b == IF signed THEN a + 1 ELSE a
        e == SkipDigits(s, b)
        point == e <= Len(s) /\ Char(s, e) = "."
        f == IF point THEN SkipDigits(s, e + 1) ELSE e
        nFrac == IF point THEN f - (e + 1) ELSE 0
        whole == DigitsValue(s, b, e)
        frac == IF nFrac = 0 THEN 0
                ELSE IF nFrac = 1 THEN 10 * DigitsValue(s, e + 1, e + 2)
                ELSE DigitsValue(s, e + 1, e + 3)
        mag == whole * 100 + frac
    IN IF e = b /\ nFrac = 0 THEN NaN
       ELSE Num(IF signed /\ Char(s, a) = "-" THEN -mag ELSE mag)

\* a + b on numbers
Add(a, b) == IF a.nan \/ b.nan THEN NaN ELSE Num(a.v + b.v)
\* Math.round(x / 2) of an amount x in hundredths, in whole units: the
\* nearest integer, a half rounded up
RoundHalf(x) == IF x.nan THEN NaN ELSE Num((x.v + 100) \div 200)
\* Max1 without the clamp
Max1_NoClamp(n) == n
\* Math.max(1, n)
Max1(n) == IF n < 1 THEN 1 ELSE n

----------------------------------------------------------------------------
(* Tier classifier *)

Starter == "Starter"
Essential == "Essential"
Premium == "Premium"

\* option.price <= limit, limit in whole currency units (false for NaN)
PriceAtMost(price, limit) == ~price.nan /\ price.v <= limit * 100

\* titleFromHandle without the "premium" test
titleFromHandle_NoPremium(option) ==
    IF option.handle = "" THEN Null
    ELSE IF Includes(option.handle, "starter") THEN Starter
    ELSE IF Includes(option.handle, "custom") THEN Essential
    ELSE Null

\* the handle rules; Null when none returns
titleFromHandle(option) ==
    IF option.handle = "" THEN Null
    ELSE IF Includes(option.handle, "starter") THEN Starter
    ELSE IF Includes(option.handle, "custom") THEN Essential
    ELSE IF Includes(option.handle, "premium") THEN Premium
    ELSE Null

\* titleFromId on the id as it is, not lower-cased
titleFromId_CaseSensitive(option) ==
    LET id == option.id
    IN IF Includes(id, "starter") THEN Starter
       ELSE IF Includes(id, "custom") \/ Includes(id, "essential") THEN Essential
       ELSE IF Includes(id, "premium") THEN Premium
       ELSE Null

\* the rules on the lower-cased id; Null when none returns
titleFromId(option) ==
    LET id == ToLowerCase(option.id)
    IN IF Includes(id, "starter") THEN Starter
       ELSE IF Includes(id, "custom") \/ Includes(id, "essential") THEN Essential
       ELSE IF Includes(id, "premium") THEN Premium
       ELSE Null

\* the name rule; Null when it does not return
titleFromName(option) ==
    IF option.name = "Starter" \/ option.name = "Essential" \/ option.name = "Premium"
    THEN option.name
    ELSE Null

\* titleFromPrice without the closing return: undefined above the bands
titleFromPrice_NoDefault(option) ==
    IF PriceAtMost(option.price, StarterMaxPrice) THEN Starter
    ELSE IF PriceAtMost(option.price, EssentialMaxPrice) THEN Essential
    ELSE Null

\* the last resort: the price bands
titleFromPrice(option) ==
    IF PriceAtMost(option.price, StarterMaxPrice) THEN Starter
    ELSE IF PriceAtMost(option.price, EssentialMaxPrice) THEN Essential
    ELSE Premium

getDisplayTitle(option) ==
    IF titleFromHandle(option) # Null THEN titleFromHandle(option)
    ELSE IF titleFromId(option) # Null THEN titleFromId(option)
    ELSE IF titleFromName(option) # Null THEN titleFromName(option)
    ELSE titleFromPrice(option)

----------------------------------------------------------------------------
(* Variant resolver *)

PremiumCustomQuoteId == "gid://shopify/ProductVariant/44872062795961"
EssentialCustomQuoteId == "gid://shopify/ProductVariant/44872056373433"
StarterCustomQuoteId == "gid://shopify/ProductVariant/44872043167929"
CustomQuoteIds == {PremiumCustomQuoteId, EssentialCustomQuoteId, StarterCustomQuoteId}

\* selectedOptions.find(option => option.name === "User Count"): its index, 0 if none
RECURSIVE FindCountOptionFrom(_, _)
FindCountOptionFrom(opts, i) ==
    IF i > Len(opts) THEN 0
    ELSE IF opts[i].name = "User Count" THEN i
    ELSE FindCountOptionFrom(opts, i + 1)
FindCountOption(opts) == FindCountOptionFrom(opts, 1)

extractUserCount(variant) ==
    IF ~variant.hasOptions THEN 0
    ELSE LET k == FindCountOption(variant.selectedOptions)
         IN IF k = 0 THEN 0
            ELSE LET count == ParseInt(variant.selectedOptions[k].value)
                 IN IF count.nan THEN 0 ELSE count.v

\* the callback of product.variants.find (exact match)
IsExactMatch(variant, u) ==
    /\ variant.hasOptions
    /\ \E k \in 1..Len(variant.selectedOptions) :
          /\ variant.selectedOptions[k].name = "User Count"
          /\ variant.selectedOptions[k].value = ToString(u)

\* IsValidVariant without the upper bound: any parseable count qualifies
IsValidVariant_NoUpperBound(variant, u) ==
    /\ variant.hasOptions
    /\ LET k == FindCountOption(variant.selectedOptions)
       IN k # 0 /\ ~ParseInt(variant.selectedOptions[k].value).nan

\* the callback of product.variants.filter (closest match below)
IsValidVariant(variant, u) ==
    /\ variant.hasOptions
    /\ LET k == FindCountOption(variant.selectedOptions)
       IN /\ k # 0
          /\ LET count == ParseInt(variant.selectedOptions[k].value)
             IN ~count.nan /\ count.v <= u

\* Array.prototype.find over the indices that satisfy its callback: the
\* first of them, 0 (undefined) if there is none
FirstOf(indices) ==
    IF indices = {} THEN 0
    ELSE CHOOSE i \in indices : \A j \in indices : i <= j

\* product.variants.filter(...) with the callback above
RECURSIVE FilterValid(_, _)
FilterValid(seq, u) ==
    IF seq = <<>> THEN <<>>
    ELSE (IF IsValidVariant(Head(seq), u) THEN <<Head(seq)>> ELSE <<>>)
         \o FilterValid(Tail(seq), u)

\* CompareDesc with the operands exchanged: an ascending sort
CompareDesc_Ascending(a, b) == extractUserCount(a) - extractUserCount(b)

\* comparator of the sort: (a, b) => bCount - aCount
CompareDesc(a, b) == extractUserCount(b) - extractUserCount(a)

\* Array.prototype.sort (stable): x goes after every element it does not precede
RECURSIVE InsertSorted(_, _)
InsertSorted(sorted, x) ==
    IF sorted = <<>> THEN <<x>>
    ELSE IF CompareDesc(Head(sorted), x) <= 0
         THEN <<Head(sorted)>> \o InsertSorted(Tail(sorted), x)
         ELSE <<x>> \o sorted
RECURSIVE SortDesc(_)
SortDesc(seq) ==
    IF seq = <<>> THEN <<>>
    ELSE InsertSorted(SortDesc(SubSeq(seq, 1, Len(seq) - 1)), seq[Len(seq)])

\* customQuoteVariant with the Starter and Essential ids exchanged
customQuoteVariant_SwappedIds(product) ==
    LET productType == getDisplayTitle([id |-> product.id, name |-> product.title,
                                        price |-> Num(0), handle |-> product.handle])
    IN IF productType = Premium THEN PremiumCustomQuoteId
       ELSE IF productType = Essential THEN StarterCustomQuoteId
       ELSE IF productType = Starter THEN EssentialCustomQuoteId
       ELSE product.variants[1].id

\* the u > 50 branch: the fixed custom-quote variant of the product's label
customQuoteVariant(product) ==
    LET productType == getDisplayTitle([id |-> product.id, name |-> product.title,
                                        price |-> Num(0), handle |-> product.handle])
    IN IF productType = Premium THEN PremiumCustomQuoteId
       ELSE IF productType = Essential THEN EssentialCustomQuoteId
       ELSE IF productType = Starter THEN StarterCustomQuoteId
       ELSE product.variants[1].id

\* exactMatch comparing the parsed counts instead of the strings
exactMatch_Parsed(product, u) ==
    FirstOf({ i \in 1..Len(product.variants) :
                /\ IsValidVariant(product.variants[i], u)
                /\ extractUserCount(product.variants[i]) = u })

\* product.variants.find(...): index of the exact match, 0 if undefined
exactMatch(product, u) ==
    FirstOf({ i \in 1..Len(product.variants) : IsExactMatch(product.variants[i], u) })

\* closestMatchArrays as product.variants.sort(...).filter(...): the sort
\* orders the product's own array
closestMatchArrays_SortFirst(product, u) ==
    LET sorted == SortDesc(product.variants)
    IN [variants |-> sorted, validVariants |-> FilterValid(sorted, u)]

\* the two arrays of the closest-match step once it has run: filter returns a
\* new array and sort orders that array in place, product.variants is only read
closestMatchArrays(product, u) ==
    LET filtered == FilterValid(product.variants, u)
    IN [variants |-> product.variants, validVariants |-> SortDesc(filtered)]

\* product.variants.filter(...).sort(...)
validVariants(product, u) == closestMatchArrays(product, u).validVariants

\* matchVariant without the first-variant fallback
matchVariant_NoFallback(product, u) ==
    IF exactMatch(product, u) # 0 THEN product.variants[exactMatch(product, u)].id
    ELSE LET valid == validVariants(product, u)
         IN IF Len(valid) > 0 THEN valid[1].id ELSE Null

\* the u <= 50 branch
matchVariant(product, u) ==
    IF exactMatch(product, u) # 0 THEN product.variants[exactMatch(product, u)].id
    ELSE LET valid == validVariants(product, u)
         IN IF Len(valid) > 0
            THEN (IF valid[1].id # "" THEN valid[1].id ELSE Null)
            ELSE product.variants[1].id

findVariantForUserCount(product, u) ==
    IF Len(product.variants) = 0 THEN Null
    ELSE IF u > LargeOrderThreshold THEN customQuoteVariant(product)
    ELSE matchVariant(product, u)

\* product.variants after the call: the closest-match step is the only one
\* that calls a method that writes to an array
variantsAfterResolution(product, u) ==
    IF Len(product.variants) = 0 \/ u > LargeOrderThreshold \/ exactMatch(product, u) # 0
    THEN product.variants
    ELSE closestMatchArrays(product, u).variants

----------------------------------------------------------------------------
(* Harness of findVariantForUserCount: the inputs are drawn in the initial *)
(* state and one step applies the function.                                *)

UserCountOption(value) == [name |-> "User Count", value |-> value]
ColorOption == [name |-> "Color", value |-> "Blue"]

\* what the selectedOptions of a catalog variant can look like
OptionChoices ==
    { [hasOptions |-> FALSE, selectedOptions |-> <<>>],
      [hasOptions |-> TRUE, selectedOptions |-> <<ColorOption>>],
      [hasOptions |-> TRUE, selectedOptions |-> <<UserCountOption("1")>>],
      [hasOptions |-> TRUE, selectedOptions |-> <<UserCountOption("2")>>],
      [hasOptions |-> TRUE, selectedOptions |-> <<ColorOption, UserCountOption("4")>>],
      [hasOptions |-> TRUE, selectedOptions |-> <<UserCountOption("50")>>],
      [hasOptions |-> TRUE, selectedOptions |-> <<UserCountOption("2 users")>>],
      [hasOptions |-> TRUE, selectedOptions |-> <<UserCountOption("Unlimited")>>] }

\* the variant at position i of a product, ids unique within the product
MkVariant(i, choice) ==
    [id |-> "v" \o ToString(i), price |-> "800.00",
     hasOptions |-> choice.hasOptions, selectedOptions |-> choice.selectedOptions]

VariantLists ==
    UNION { { [i \in 1..n |-> MkVariant(i, f[i])] : f \in [1..n -> OptionChoices] }
            : n \in 0..MaxVariants }

\* id, title and handle of the products drawn
ProductIdentities ==
    { [id |-> "gid://shopify/Product/1", title |-> "Starter Signature",
       handle |-> "starter-signature"],
      [id |-> "gid://shopify/Product/2", title |-> "Custom Signature",
       handle |-> "custom-signature"],
      [id |-> "gid://shopify/Product/3", title |-> "Premium", handle |-> ""],
      [id |-> "gid://shopify/Product/4", title |-> "Animated Signature",
       handle |-> "animated-signature"] }

MkProduct(ident, variants) ==
    [id |-> ident.id, title |-> ident.title, handle |-> ident.handle,
     variants |-> variants]

\* the user counts drawn: around the catalog's counts and around the threshold
ResolverUserCounts ==
    (1..MaxSmallCount) \cup ((LargeOrderThreshold - 1)..MaxUserCount)

ResolverProducts ==
    { MkProduct(ident, vs) : ident \in ProductIdentities, vs \in VariantLists }

\* the worked examples of the resolver: counts {10, 20, 40} with u = 35,
\* counts {20, 25} with u = 25, one variant "1" with u = 1, no variant with u = 10
CountVariants(counts) ==
    [i \in 1..Len(counts) |->
        MkVariant(i, [hasOptions |-> TRUE,
                      selectedOptions |-> <<UserCountOption(counts[i])>>])]
StarterIdentity ==
    [id |-> "gid://shopify/Product/1", title |-> "Starter Signature",
     handle |-> "starter-signature"]
ResolverExamples ==
    { <<MkProduct(StarterIdentity, CountVariants(<<"10", "20", "40">>)), 35>>,
      <<MkProduct(StarterIdentity, CountVariants(<<"20", "25">>)), 25>>,
      <<MkProduct(StarterIdentity, CountVariants(<<"1">>)), 1>>,
      <<MkProduct(StarterIdentity, <<>>), 10>> }

NoProduct == MkProduct([id |-> "", title |-> "", handle |-> ""], <<>>)
NoOption == [id |-> "", name |-> "", price |-> Num(0), handle |-> ""]

ResolverIdle ==
    /\ rProduct = NoProduct /\ rUserCount = 1 /\ rResult = Null /\ rPc = "idle"
ClassifierIdle ==
    /\ cOption = NoOption /\ cLabel = Null /\ cPc = "idle"
ComponentIdle ==
    /\ initialProducts = <<>> /\ products = <<>> /\ animationPackages = <<>>
    /\ selectedAnimation = "" /\ userCount = 1 /\ totalPrice = Num(0)
    /\ isCustomPricing = FALSE /\ isSubmitting = FALSE /\ error = Null
    /\ loading = TRUE /\ effectsPending = {} /\ fetchesInFlight = 0
    /\ cartCalls = <<>> /\ location = PricingPage
    /\ propChanges = 0 /\ userEvents = 0 /\ lastEvent = "none"

\* products whose first variant carries a price of each price band, at and
\* above the large-order threshold
PricedVariant(price) ==
    [id |-> "v1", price |-> price, hasOptions |-> TRUE,
     selectedOptions |-> <<UserCountOption("1")>>]
ResolverPricedExamples ==
    { <<MkProduct(ident, <<PricedVariant(price)>>), u>> :
        ident \in ProductIdentities, price \in {"800.00", "1200.00", "1525.00"},
        u \in {LargeOrderThreshold, LargeOrderThreshold + 1} }

ResolverInit ==
    /\ \E input \in (ResolverProducts \X ResolverUserCounts) \cup ResolverExamples
                      \cup ResolverPricedExamples :
          rProduct = input[1] /\ rUserCount = input[2]
    /\ rResult = Null
    /\ rPc = "call"
    /\ ClassifierIdle /\ ComponentIdle

Resolve ==
    /\ rPc = "call"
    /\ rResult' = findVariantForUserCount(rProduct, rUserCount)
    /\ rProduct' = [rProduct EXCEPT
                       !.variants = variantsAfterResolution(rProduct, rUserCount)]
    /\ rPc' = "done"
    /\ UNCHANGED <<rUserCount, compVars, classifierVars>>

ResolverNext == Resolve
SpecResolver == ResolverInit /\ [][ResolverNext]_vars

----------------------------------------------------------------------------
(* Harness of getDisplayTitle *)

ClassifierHandles ==
    { "", "starter-signature", "custom-signature", "premium-signature",
      "animated-signature", "premium-starter-kit", "custom-premium",
      "Premium-Pack" }
ClassifierIds ==
    { "gid://shopify/Product/1", "Starter-1", "CUSTOM-2", "essential-pack",
      "PREMIUM-3" }
ClassifierNames ==
    { "Starter", "Essential", "Premium", "Premium Signature", "starter" }
ClassifierPrices ==
    { Num(0), Num(95000), Num(95001), Num(145000), Num(145001), NaN }

ClassifierOptions ==
    { [id |-> i, name |-> n, price |-> pr, handle |-> h] :
        i \in ClassifierIds, n \in ClassifierNames, pr \in ClassifierPrices,
        h \in ClassifierHandles }

ClassifierInit ==
    /\ cOption \in ClassifierOptions
    /\ cLabel = Null
    /\ cPc = "call"
    /\ ResolverIdle /\ ComponentIdle

Classify ==
    /\ cPc = "call"
    /\ cLabel' = getDisplayTitle(cOption)
    /\ cPc' = "done"
    /\ UNCHANGED <<cOption, compVars, resolverVars>>

ClassifierNext == Classify
SpecClassifier == ClassifierInit /\ [][ClassifierNext]_vars

----------------------------------------------------------------------------
(* The component: catalog, effects, event handlers and callbacks *)

CountVariant(id, price, count) ==
    [id |-> id, price |-> price, hasOptions |-> TRUE,
     selectedOptions |-> <<UserCountOption(count)>>]

StarterProduct ==
    [id |-> "gid://shopify/Product/101", title |-> "Starter Signature",
     handle |-> "starter-signature",
     variants |-> << CountVariant("gid://shopify/ProductVariant/1011", "800.00", "1"),
                     CountVariant("gid://shopify/ProductVariant/1012", "1250.00", "10") >>]
EssentialProduct ==
    [id |-> "gid://shopify/Product/102", title |-> "Custom Signature",
     handle |-> "custom-signature",
     variants |-> << CountVariant("gid://shopify/ProductVariant/1021", "1200.00", "1") >>]
PremiumProduct ==
    [id |-> "gid://shopify/Product/103", title |-> "Premium Signature",
     handle |-> "premium-signature",
     variants |-> << CountVariant("gid://shopify/ProductVariant/1031", "1525.00", "1"),
                     CountVariant("gid://shopify/ProductVariant/1032", "2700.00", "25") >>]
\* the same product after a price change in the catalog
PremiumProductRepriced ==
    [id |-> "gid://shopify/Product/103", title |-> "Premium Signature",
     handle |-> "premium-signature",
     variants |-> << CountVariant("gid://shopify/ProductVariant/1031", "1499.9", "1"),
                     CountVariant("gid://shopify/ProductVariant/1032", "2700.00", "25") >>]
\* a product the catalog lists without variants
BareProduct ==
    [id |-> "gid://shopify/Product/104", title |-> "Signature Add-on",
     handle |-> "signature-addon", variants |-> <<>>]

CatalogA == <<StarterProduct, EssentialProduct, PremiumProduct>>
CatalogB == <<PremiumProductRepriced, BareProduct>>
\* what a successful catalog request can deliver (at least one product)
FetchedCatalogs == {CatalogA, CatalogB}
\* what the parent can pass as the products prop: null or a catalog
PropValues == {<<>>, <<CatalogA>>, <<CatalogB>>}

\* the ways the catalog request fails, with the message thrown
FetchFailures ==
    { "API error: 500", "Shopify unavailable", "Collection not found",
      "No products found in collection" }
CartFailure == "Failed to create cart"
CheckoutUrl == "https://shop.example/checkout/1"
SellingPlanId == "gid://shopify/SellingPlan/3226403001"

\* formatPackage with the price of the last variant
formatPackage_LastVariant(product) ==
    [id |-> product.id, name |-> product.title,
     price |-> IF Len(product.variants) > 0
               THEN ParseFloat(product.variants[Len(product.variants)].price)
               ELSE Num(0),
     handle |-> product.handle]

\* products.map(...) of the "Process products" effect
formatPackage(product) ==
    [id |-> product.id, name |-> product.title,
     price |-> IF Len(product.variants) > 0
               THEN ParseFloat(product.variants[1].price)
               ELSE Num(0),
     handle |-> product.handle]
formatPackages(catalog) == [i \in 1..Len(catalog) |-> formatPackage(catalog[i])]

\* list.find(p => p.id === id): index of the first element with that id, 0 if none
FindById(list, id) ==
    FirstOf({ i \in 1..Len(list) : list[i].id = id })

\* calculateTotal with the per-user rate left out of the sum
calculateTotal_NoUserRate(packages, selected, u, prevTotal, prevCustom) ==
    LET k == FindById(packages, selected)
    IN IF k = 0 THEN [totalPrice |-> Num(0), isCustomPricing |-> prevCustom]
       ELSE IF u > LargeOrderThreshold
            THEN [totalPrice |-> prevTotal, isCustomPricing |-> TRUE]
            ELSE [totalPrice |-> Add(packages[k].price, Num(100 * u)),
                  isCustomPricing |-> FALSE]

\* calculateTotal with the threshold test off by one (>= instead of >)
calculateTotal_ThresholdInclusive(packages, selected, u, prevTotal, prevCustom) ==
    LET k == FindById(packages, selected)
    IN IF k = 0 THEN [totalPrice |-> Num(0), isCustomPricing |-> prevCustom]
       ELSE IF u >= LargeOrderThreshold
            THEN [totalPrice |-> prevTotal, isCustomPricing |-> TRUE]
            ELSE [totalPrice |-> Add(packages[k].price, Num(100 * USER_PRICE * u)),
                  isCustomPricing |-> FALSE]

\* the "Calculate total price" effect: the values of totalPrice and
\* isCustomPricing after it ran (a state it does not set keeps its value)
calculateTotal(packages, selected, u, prevTotal, prevCustom) ==
    LET k == FindById(packages, selected)
    IN IF k = 0 THEN [totalPrice |-> Num(0), isCustomPricing |-> prevCustom]
       ELSE IF u > LargeOrderThreshold
            THEN [totalPrice |-> prevTotal, isCustomPricing |-> TRUE]
            ELSE [totalPrice |-> Add(packages[k].price, Num(100 * USER_PRICE * u)),
                  isCustomPricing |-> FALSE]

\* CartCall with the user count passed as the quantity
CartCall_CountAsQuantity(variantId, u) ==
    [variantId |-> variantId, quantity |-> u,
     customAttributes |-> << [key |-> "User Count", value |-> ToString(u)] >>,
     sellingPlanId |-> SellingPlanId]

\* the arguments of createCart
CartCall(variantId, u) ==
    [variantId |-> variantId, quantity |-> 1,
     customAttributes |-> << [key |-> "User Count", value |-> ToString(u)] >>,
     sellingPlanId |-> SellingPlanId]
NoCall == CartCall(Null, 0)

\* submission without the test of the resolver's result
submission_NoVariantCheck(packages, prods, selected, u) ==
    IF FindById(packages, selected) = 0
    THEN [thrown |-> TRUE, message |-> "Selected package not found", call |-> NoCall]
    ELSE IF prods = <<>> \/ FindById(prods[1], selected) = 0
    THEN [thrown |-> TRUE, message |-> "Product not found", call |-> NoCall]
    ELSE LET product == prods[1][FindById(prods[1], selected)]
             variantId == findVariantForUserCount(product, u)
         IN [thrown |-> FALSE, message |-> "", call |-> CartCall(variantId, u)]

\* the try block of handleGetStarted up to the createCart call: what it
\* throws, or the call it makes
submission(packages, prods, selected, u) ==
    IF FindById(packages, selected) = 0
    THEN [thrown |-> TRUE, message |-> "Selected package not found", call |-> NoCall]
    ELSE IF prods = <<>> \/ FindById(prods[1], selected) = 0
    THEN [thrown |-> TRUE, message |-> "Product not found", call |-> NoCall]
    ELSE LET product == prods[1][FindById(prods[1], selected)]
             variantId == findVariantForUserCount(product, u)
         IN IF variantId = Null \/ variantId = ""
            THEN [thrown |-> TRUE,
                  message |-> "No variant found for user count: " \o ToString(u),
                  call |-> NoCall]
            ELSE [thrown |-> FALSE, message |-> "", call |-> CartCall(variantId, u)]

\* what the render shows -------------------------------------------------

\* selectableIds without the filter
selectableIds_Unfiltered ==
    { animationPackages[i].id : i \in 1..Len(animationPackages) }

\* the options of the package radio group: Essential is filtered out
selectableIds ==
    { animationPackages[i].id :
        i \in { j \in 1..Len(animationPackages) :
                  getDisplayTitle(animationPackages[j]) # Essential } }

\* renderTotal with the deposit rounded down
renderTotal_Floor ==
    IF loading THEN [view |-> "loading", total |-> NaN, deposit |-> NaN]
    ELSE IF selectedAnimation = ""
    THEN [view |-> "select", total |-> NaN, deposit |-> NaN]
    ELSE IF isCustomPricing
    THEN [view |-> "customQuote", total |-> NaN, deposit |-> NaN]
    ELSE [view |-> "price", total |-> totalPrice,
          deposit |-> IF totalPrice.nan THEN NaN ELSE Num(totalPrice.v \div 200)]

\* the "Your Total" panel: which branch is shown, and the numbers in it
\* (total in hundredths, deposit in whole units)
renderTotal ==
    IF loading THEN [view |-> "loading", total |-> NaN, deposit |-> NaN]
    ELSE IF selectedAnimation = ""
    THEN [view |-> "select", total |-> NaN, deposit |-> NaN]
    ELSE IF isCustomPricing
    THEN [view |-> "customQuote", total |-> NaN, deposit |-> NaN]
    ELSE [view |-> "price", total |-> totalPrice, deposit |-> RoundHalf(totalPrice)]

\* submitDisabled without the busy flag
submitDisabled_SelectionOnly == selectedAnimation = ""

\* disabled attribute of the submit button
submitDisabled == isSubmitting \/ selectedAnimation = ""

\* the page is shown, the calculator is rendered and React has nothing to run
Alive == location = PricingPage
Settled == Alive /\ effectsPending = {}
Interactive == Settled /\ ~loading /\ userEvents < MaxUserEvents

\* state after construction with one of the given values of the products
\* prop: the first render, its effects not yet run
Mount(propValues) ==
    /\ initialProducts \in propValues
    /\ products = initialProducts
    /\ animationPackages = <<>>
    /\ selectedAnimation = ""
    /\ userCount = 1
    /\ totalPrice = Num(0)
    /\ isCustomPricing = FALSE
    /\ isSubmitting = FALSE
    /\ error = Null
    /\ loading = TRUE
    /\ effectsPending = {"fetch", "process", "price"}
    /\ fetchesInFlight = 0
    /\ cartCalls = <<>>
    /\ location = PricingPage
    /\ propChanges = 0
    /\ userEvents = 0
    /\ lastEvent = "mount"
    /\ ResolverIdle /\ ClassifierIdle

Init == Mount(PropValues)

\* React runs the effects whose dependencies changed in the last commit:
\* fetchProducts (up to its first await), "Process products" and
\* "Calculate total price", each on the state of that commit
runEffects ==
    /\ Alive
    /\ effectsPending # {}
    /\ LET runFetch == "fetch" \in effectsPending
           runProcess == "process" \in effectsPending /\ products # <<>>
           runPrice == "price" \in effectsPending
           supplied == runFetch /\ initialProducts # <<>>
           startFetch == runFetch /\ initialProducts = <<>>
           newProducts == IF supplied THEN initialProducts ELSE products
           newPackages == IF runProcess THEN formatPackages(products[1])
                          ELSE animationPackages
           price == calculateTotal(animationPackages, selectedAnimation, userCount,
                                   totalPrice, isCustomPricing)
       IN /\ products' = newProducts
          /\ loading' = (startFetch \/ loading)
          /\ fetchesInFlight' = IF startFetch THEN fetchesInFlight + 1
                                ELSE fetchesInFlight
          /\ animationPackages' = newPackages
          /\ totalPrice' = IF runPrice THEN price.totalPrice ELSE totalPrice
          /\ isCustomPricing' = IF runPrice THEN price.isCustomPricing
                                ELSE isCustomPricing
          /\ effectsPending' =
                (IF newProducts # products THEN {"process"} ELSE {})
                \cup (IF newPackages # animationPackages THEN {"price"} ELSE {})
    /\ lastEvent' = "effects"
    /\ UNCHANGED <<initialProducts, selectedAnimation, userCount, isSubmitting,
                   error, cartCalls, location, propChanges, userEvents, resolverVars,
                   classifierVars>>

\* the catalog request returns a catalog: setProducts, then finally setLoading(false)
fetchResolved(catalog) ==
    /\ Settled
    /\ fetchesInFlight > 0
    /\ fetchesInFlight' = fetchesInFlight - 1
    /\ products' = <<catalog>>
    /\ loading' = FALSE
    /\ effectsPending' = IF <<catalog>> # products THEN {"process"} ELSE {}
    /\ lastEvent' = "fetchResolved"
    /\ UNCHANGED <<initialProducts, animationPackages, selectedAnimation, userCount,
                   totalPrice, isCustomPricing, isSubmitting, error, cartCalls,
                   location, propChanges, userEvents, resolverVars, classifierVars>>

\* fetchRejected without catch and finally: the rejection is not handled
fetchRejected_Unhandled(message) ==
    /\ Settled
    /\ fetchesInFlight > 0
    /\ fetchesInFlight' = fetchesInFlight - 1
    /\ lastEvent' = "fetchRejected"
    /\ UNCHANGED <<initialProducts, products, animationPackages, selectedAnimation,
                   userCount, totalPrice, isCustomPricing, isSubmitting, cartCalls,
                   location, effectsPending, propChanges, userEvents, error, loading,
                   resolverVars, classifierVars>>

\* the catalog request fails: catch sets the error, finally setLoading(false)
fetchRejected(message) ==
    /\ Settled
    /\ fetchesInFlight > 0
    /\ fetchesInFlight' = fetchesInFlight - 1
    /\ error' = "Error fetching products: " \o message
    /\ loading' = FALSE
    /\ lastEvent' = "fetchRejected"
    /\ UNCHANGED <<initialProducts, products, animationPackages, selectedAnimation,
                   userCount, totalPrice, isCustomPricing, isSubmitting, cartCalls,
                   location, effectsPending, propChanges, userEvents, resolverVars,
                   classifierVars>>

\* the parent renders the component with another products prop
propsChanged(value) ==
    /\ Settled
    /\ propChanges < MaxPropChanges
    /\ value # initialProducts
    /\ value = <<>> => fetchesInFlight < MaxFetches
    /\ initialProducts' = value
    /\ propChanges' = propChanges + 1
    /\ effectsPending' = {"fetch"}
    /\ lastEvent' = "propsChanged"
    /\ UNCHANGED <<products, animationPackages, selectedAnimation, userCount,
                   totalPrice, isCustomPricing, isSubmitting, error, loading,
                   fetchesInFlight, cartCalls, location, userEvents, resolverVars,
                   classifierVars>>

\* a state setter of the selection: the price effect is scheduled when the
\* value changes
setSelection(selected, u, event) ==
    /\ selectedAnimation' = selected
    /\ userCount' = u
    /\ effectsPending' = IF selected # selectedAnimation \/ u # userCount
                         THEN {"price"} ELSE {}
    /\ userEvents' = userEvents + 1
    /\ lastEvent' = event
    /\ UNCHANGED <<initialProducts, products, animationPackages, totalPrice,
                   isCustomPricing, isSubmitting, error, loading, fetchesInFlight,
                   cartCalls, location, propChanges, resolverVars, classifierVars>>

\* click on a package / onValueChange of the radio group
selectPackage(id) ==
    /\ Interactive
    /\ id \in selectableIds
    /\ setSelection(id, userCount, "selectPackage")

\* the "-" button
decrement ==
    /\ Interactive
    /\ setSelection(selectedAnimation, Max1(userCount - 1), "decrement")

\* the "+" button
increment ==
    /\ Interactive
    /\ userCount < MaxUserCount
    /\ setSelection(selectedAnimation, userCount + 1, "increment")

\* what the number input can hold when onChange fires
TypedValues == {"", "0", "-3", "7", "50", "51"}

\* onChange of the number input
typeCount(text) ==
    /\ Interactive
    /\ LET value == ParseInt(text)
       IN IF value.nan
          THEN setSelection(selectedAnimation, userCount, "typeCount")
          ELSE /\ Max1(value.v) <= MaxUserCount
               /\ setSelection(selectedAnimation, Max1(value.v), "typeCount")

\* click on the submit button: handleGetStarted up to its await, or to its
\* end when the try block throws before
handleGetStarted ==
    /\ Interactive
    /\ ~submitDisabled
    /\ LET s == submission(animationPackages, products, selectedAnimation, userCount)
       IN IF s.thrown
          THEN /\ error' = "Error: " \o s.message
               /\ isSubmitting' = FALSE
               /\ cartCalls' = cartCalls
          ELSE /\ error' = Null
               /\ isSubmitting' = TRUE
               /\ cartCalls' = Append(cartCalls, s.call)
    /\ userEvents' = userEvents + 1
    /\ lastEvent' = "handleGetStarted"
    /\ UNCHANGED <<initialProducts, products, animationPackages, selectedAnimation,
                   userCount, totalPrice, isCustomPricing, loading, effectsPending,
                   fetchesInFlight, location, propChanges, resolverVars,
                   classifierVars>>

\* cartResolved with setIsSubmitting(false) in the catch block only
cartResolved_BusyAfterRedirect ==
    /\ Settled
    /\ cartCalls # <<>>
    /\ cartCalls' = Tail(cartCalls)
    /\ location' = CheckoutUrl
    /\ lastEvent' = "cartResolved"
    /\ UNCHANGED <<initialProducts, products, animationPackages, selectedAnimation,
                   userCount, totalPrice, isCustomPricing, isSubmitting, error, loading,
                   effectsPending, fetchesInFlight, propChanges, userEvents, resolverVars,
                   classifierVars>>

\* createCart returns a cart: redirect to its checkout URL, finally
\* setIsSubmitting(false)
cartResolved ==
    /\ Settled
    /\ cartCalls # <<>>
    /\ cartCalls' = Tail(cartCalls)
    /\ location' = CheckoutUrl
    /\ isSubmitting' = FALSE
    /\ lastEvent' = "cartResolved"
    /\ UNCHANGED <<initialProducts, products, animationPackages, selectedAnimation,
                   userCount, totalPrice, isCustomPricing, error, loading,
                   effectsPending, fetchesInFlight, propChanges, userEvents, resolverVars,
                   classifierVars>>

\* cartRejected without the finally block
cartRejected_NoFinally ==
    /\ Settled
    /\ cartCalls # <<>>
    /\ cartCalls' = Tail(cartCalls)
    /\ error' = "Error: " \o CartFailure
    /\ lastEvent' = "cartRejected"
    /\ UNCHANGED <<initialProducts, products, animationPackages, selectedAnimation,
                   userCount, totalPrice, isCustomPricing, isSubmitting, loading,
                   effectsPending, fetchesInFlight, location, propChanges, userEvents,
                   resolverVars, classifierVars>>

\* createCart throws: catch sets the error, finally setIsSubmitting(false)
cartRejected ==
    /\ Settled
    /\ cartCalls # <<>>
    /\ cartCalls' = Tail(cartCalls)
    /\ error' = "Error: " \o CartFailure
    /\ isSubmitting' = FALSE
    /\ lastEvent' = "cartRejected"
    /\ UNCHANGED <<initialProducts, products, animationPackages, selectedAnimation,
                   userCount, totalPrice, isCustomPricing, loading, effectsPending,
                   fetchesInFlight, location, propChanges, userEvents, resolverVars,
                   classifierVars>>

Next ==
    \/ runEffects
    \/ \E catalog \in FetchedCatalogs : fetchResolved(catalog)
    \/ \E message \in FetchFailures : fetchRejected(message)
    \/ \E value \in PropValues : propsChanged(value)
    \/ \E id \in selectableIds : selectPackage(id)
    \/ decrement
    \/ increment
    \/ \E text \in TypedValues : typeCount(text)
    \/ handleGetStarted
    \/ cartResolved
    \/ cartRejected

Spec == Init /\ [][Next]_vars

\* the scheduling the runtime and the network give: React runs the effects
\* it has scheduled, a catalog request returns or fails, a createCart call
\* returns or fails; the user and the parent component are free to act or not
fetchSettles ==
    \/ \E catalog \in FetchedCatalogs : fetchResolved(catalog)
    \/ \E message \in FetchFailures : fetchRejected(message)
cartSettles == cartResolved \/ cartRejected
\* the steps of a session of at most MaxFairEvents user events
FairNext ==
    \/ runEffects
    \/ fetchSettles
    \/ cartSettles
    \/ \E value \in PropValues : propsChanged(value)
    \/ userEvents < MaxFairEvents /\ \E id \in selectableIds : selectPackage(id)
    \/ userEvents < MaxFairEvents /\ decrement
    \/ userEvents < MaxFairEvents /\ increment
    \/ userEvents < MaxFairEvents /\ \E text \in TypedValues : typeCount(text)
    \/ userEvents < MaxFairEvents /\ handleGetStarted
FairSpec ==
    /\ Init
    /\ [][FairNext]_vars
    /\ WF_vars(runEffects)
    /\ WF_vars(fetchSettles)
    /\ WF_vars(cartSettles)

----------------------------------------------------------------------------
(* The catalog normaliser on its own: the component mounted with a product *)
(* list, and the effects run on it.                                        *)

\* the products the lists are drawn from: two variants, one variant, a
\* price with one fraction digit, no variants
NormalizerProducts ==
    {StarterProduct, EssentialProduct, PremiumProduct, PremiumProductRepriced,
     BareProduct}
\* the product lists of up to MaxProducts products
NormalizerCatalogs ==
    UNION { [1..n -> NormalizerProducts] : n \in 0..MaxProducts }
NormalizerInit == Mount({ <<catalog>> : catalog \in NormalizerCatalogs })
NormalizerNext == runEffects
SpecNormalizer == NormalizerInit /\ [][NormalizerNext]_vars

----------------------------------------------------------------------------
(* Properties of findVariantForUserCount, read off the harness once the    *)
(* call has returned.                                                      *)

Resolved == rPc = "done"
rVariants == rProduct.variants

\* the values of a variant's options named "User Count"
CountStrings(v) ==
    IF v.hasOptions
    THEN { v.selectedOptions[k].value :
             k \in { j \in 1..Len(v.selectedOptions) :
                       v.selectedOptions[j].name = "User Count" } }
    ELSE {}
\* the numbers a variant's "User Count" parses to (none if missing or unparseable)
ParsedCounts(v) == { ParseInt(x).v : x \in { y \in CountStrings(v) : ~ParseInt(y).nan } }
HasCountString(v, u) == ToString(u) \in CountStrings(v)
HasCountAtMost(v, u) == \E c \in ParsedCounts(v) : c <= u
ParsedCount(v) == CHOOSE c \in ParsedCounts(v) : TRUE

\* the custom-quote variant id that goes with a label
QuoteIdOfLabel(label) ==
    CASE label = "Starter" -> "gid://shopify/ProductVariant/44872043167929"
      [] label = "Essential" -> "gid://shopify/ProductVariant/44872056373433"
      [] label = "Premium" -> "gid://shopify/ProductVariant/44872062795961"
\* the label the resolver classifies a product by
ResolverLabel(product) ==
    getDisplayTitle([id |-> product.id, name |-> product.title, price |-> Num(0),
                     handle |-> product.handle])

\* C1 as stated: for every product, whatever its variant list, and every
\* u > 50 the resolver returns one of the three custom-quote variant ids.
C1_AnyVariantList ==
    (Resolved /\ rUserCount > 50) => rResult \in CustomQuoteIds

\* C1 amended: for every product with at least one variant and every u > 50
\* the resolver returns the custom-quote variant id of the product's label,
\* which is one of the three fixed ids and a function of id, title and handle
\* alone.
C1_LargeOrderOverride ==
    (Resolved /\ rUserCount > 50 /\ Len(rVariants) >= 1)
        => /\ rResult = QuoteIdOfLabel(ResolverLabel(rProduct))
           /\ rResult \in CustomQuoteIds

C1_Witness ==
    /\ Resolved /\ rUserCount > 50 /\ Len(rVariants) >= 2
    /\ HasCountString(rVariants[1], 1)
    /\ rProduct.handle = "custom-signature"
    /\ rResult = "gid://shopify/ProductVariant/44872056373433"

\* C2: for 1 <= u <= 50 and a product with a variant whose "User Count" is
\* the decimal string of u, the resolver returns the id of the first such
\* variant in source order, whatever the other variants are.
C2_ExactMatchPriority ==
    ( /\ Resolved
      /\ rUserCount >= 1
      /\ rUserCount <= 50
      /\ \E i \in 1..Len(rVariants) : HasCountString(rVariants[i], rUserCount) )
        => \E i \in 1..Len(rVariants) :
              /\ HasCountString(rVariants[i], rUserCount)
              /\ \A j \in 1..(i - 1) : ~HasCountString(rVariants[j], rUserCount)
              /\ rResult = rVariants[i].id
              /\ \A j \in 1..Len(rVariants) :
                    rResult = rVariants[j].id => HasCountString(rVariants[j], rUserCount)

C2_Witness ==
    /\ Resolved /\ rUserCount = 2 /\ Len(rVariants) = 3
    /\ HasCountString(rVariants[1], 1)
    /\ CountStrings(rVariants[2]) = {"2 users"}
    /\ HasCountString(rVariants[3], 2)
    /\ rResult = rVariants[3].id

\* C3: for u <= 50 and a product with no exact match for u but a variant
\* whose "User Count" parses to a number <= u, the resolver returns a variant
\* with the greatest count <= u, the first of them in the original order.
C3_ClosestMatchBelow ==
    ( /\ Resolved
      /\ rUserCount <= 50
      /\ \A i \in 1..Len(rVariants) : ~HasCountString(rVariants[i], rUserCount)
      /\ \E i \in 1..Len(rVariants) : HasCountAtMost(rVariants[i], rUserCount) )
        => \E i \in 1..Len(rVariants) :
              /\ HasCountAtMost(rVariants[i], rUserCount)
              /\ \A j \in 1..Len(rVariants) :
                    HasCountAtMost(rVariants[j], rUserCount)
                        => ParsedCount(rVariants[j]) <= ParsedCount(rVariants[i])
              /\ \A j \in 1..(i - 1) :
                    HasCountAtMost(rVariants[j], rUserCount)
                        => ParsedCount(rVariants[j]) < ParsedCount(rVariants[i])
              /\ rResult = rVariants[i].id

C3_Witness ==
    /\ Resolved /\ rUserCount = 3 /\ Len(rVariants) = 3
    /\ HasCountString(rVariants[1], 4)
    /\ CountStrings(rVariants[2]) = {"2 users"}
    /\ HasCountString(rVariants[3], 2)
    /\ rResult = rVariants[2].id

----------------------------------------------------------------------------
(* Properties of getDisplayTitle, read off the harness *)

Classified == cPc = "done"

\* C10: for every combination of handle (present or absent), id, name and
\* price the classifier returns one of Starter, Essential, Premium.
C10_ClassifierTotal ==
    Classified => cLabel \in {"Starter", "Essential", "Premium"}

C10_Witness ==
    /\ Classified
    /\ cOption.handle = "" /\ cOption.id = "gid://shopify/Product/1"
    /\ cOption.name = "Premium Signature" /\ cOption.price = NaN
    /\ cLabel = "Premium"

\* the substring tests of the rule list
HandleHas(word) == cOption.handle # "" /\ Includes(cOption.handle, word)
IdHas(word) == Includes(ToLowerCase(cOption.id), word)
NameIsLabel == cOption.name \in {"Starter", "Essential", "Premium"}
\* no handle rule applies / no id rule of the three-word list applies
NoHandleRule == ~HandleHas("starter") /\ ~HandleHas("custom") /\ ~HandleHas("premium")
NoIdRule == ~IdHas("starter") /\ ~IdHas("custom") /\ ~IdHas("premium")
\* the label of the price bands
PriceBand ==
    IF ~cOption.price.nan /\ cOption.price.v <= 95000 THEN "Starter"
    ELSE IF ~cOption.price.nan /\ cOption.price.v <= 145000 THEN "Essential"
    ELSE "Premium"
\* the outcome of the handle rules and of the three-word id rules, given
\* that one of them applies
HandleAndIdRules ==
    /\ HandleHas("starter") => cLabel = "Starter"
    /\ (~HandleHas("starter") /\ HandleHas("custom")) => cLabel = "Essential"
    /\ (~HandleHas("starter") /\ ~HandleHas("custom") /\ HandleHas("premium"))
          => cLabel = "Premium"
    /\ (NoHandleRule /\ IdHas("starter")) => cLabel = "Starter"
    /\ (NoHandleRule /\ ~IdHas("starter") /\ IdHas("custom")) => cLabel = "Essential"

\* C11 as stated: the label is that of the first matching rule of the list
\* handle ("starter", "custom", "premium"), lower-cased id (the same three
\* words and only those), name, price bands.
C11_ThreeWordIdRule ==
    Classified =>
        /\ HandleAndIdRules
        /\ (NoHandleRule /\ ~IdHas("starter") /\ ~IdHas("custom") /\ IdHas("premium"))
              => cLabel = "Premium"
        /\ (NoHandleRule /\ NoIdRule /\ NameIsLabel) => cLabel = cOption.name
        /\ (NoHandleRule /\ NoIdRule /\ ~NameIsLabel) => cLabel = PriceBand

\* C11 amended: as above, with the id rule for Essential matching "custom"
\* or "essential": the label is that of the first matching rule of the list
\* handle ("starter", "custom", "premium"), lower-cased id ("starter",
\* "custom" or "essential", "premium"), name, price bands.
C11_RuleOrder ==
    Classified =>
        /\ HandleAndIdRules
        /\ (NoHandleRule /\ ~IdHas("starter") /\ ~IdHas("custom") /\ IdHas("essential"))
              => cLabel = "Essential"
        /\ (NoHandleRule /\ ~IdHas("starter") /\ ~IdHas("custom")
               /\ ~IdHas("essential") /\ IdHas("premium"))
              => cLabel = "Premium"
        /\ (NoHandleRule /\ NoIdRule /\ ~IdHas("essential") /\ NameIsLabel)
              => cLabel = cOption.name
        /\ (NoHandleRule /\ NoIdRule /\ ~IdHas("essential") /\ ~NameIsLabel)
              => cLabel = PriceBand

C11_Witness ==
    /\ Classified
    /\ cOption.handle = "animated-signature" /\ cOption.id = "essential-pack"
    /\ cOption.name = "Premium" /\ cOption.price = Num(0)
    /\ cLabel = "Essential"

\* C12 as stated: a handle that contains "premium" gives Premium, whatever
\* the price, the id, the name and the rest of the handle.
C12_AnyPremiumHandle ==
    (Classified /\ HandleHas("premium")) => cLabel = "Premium"

\* C12 amended: a handle that contains "premium" and neither "starter" nor
\* "custom" gives Premium, whatever the price, the id and the name; with
\* "starter" in the handle the label is Starter, else with "custom" Essential.
C12_PremiumHandle ==
    (Classified /\ HandleHas("premium"))
        => cLabel = IF HandleHas("starter") THEN "Starter"
                    ELSE IF HandleHas("custom") THEN "Essential"
                    ELSE "Premium"

C12_Witness ==
    /\ Classified
    /\ cOption.handle = "premium-signature" /\ cOption.id = "Starter-1"
    /\ cOption.name = "Essential" /\ cOption.price = Num(0)
    /\ cLabel = "Premium"

----------------------------------------------------------------------------
(* Properties of the component *)

\* the tiers and the products the selection names (ids are unique in a catalog)
SelectedTiers ==
    { animationPackages[i] :
        i \in { j \in 1..Len(animationPackages) :
                  animationPackages[j].id = selectedAnimation } }
SelectedProducts ==
    IF products = <<>> THEN {}
    ELSE { products[1][i] :
             i \in { j \in 1..Len(products[1]) : products[1][j].id = selectedAnimation } }
\* the "Calculate total price" effect has run on the current selection,
\* user count and tier list
PriceRecomputed == "price" \notin effectsPending

\* C5: a submission while the selected product has an empty variant list
\* ends with the "no variant" error in the error state, makes no createCart
\* call and does not redirect; the resolver returns null for that product.
C5_ZeroVariantsBlockCheckout ==
    [][ ( /\ lastEvent' = "handleGetStarted"
          /\ \E product \in SelectedProducts : Len(product.variants) = 0 )
        => /\ \A product \in SelectedProducts :
                 findVariantForUserCount(product, userCount) = Null
           /\ error' = "Error: No variant found for user count: " \o ToString(userCount)
           /\ cartCalls' = cartCalls
           /\ cartCalls' = <<>>
           /\ location' = location
           /\ isSubmitting' = FALSE ]_vars

C5_Witness ==
    /\ lastEvent = "handleGetStarted"
    /\ \E product \in SelectedProducts : Len(product.variants) = 0
    /\ userCount = 7
    /\ error = "Error: No variant found for user count: 7"
    /\ cartCalls = <<>>
    /\ location = PricingPage

\* C7: whenever the price has been recomputed, a tier with base price p is
\* selected and 1 <= u <= 50: the custom-quote flag is false, the total is
\* p + 50 u, and the deposit shown is total / 2 rounded to the nearest
\* integer, a half rounded up (the ceiling of total / 2 for an integer total).
C7_PriceFormula ==
    \A tier \in SelectedTiers :
        (PriceRecomputed /\ ~tier.price.nan /\ userCount >= 1 /\ userCount <= 50)
            => /\ isCustomPricing = FALSE
               /\ totalPrice = Num(tier.price.v + 100 * 50 * userCount)
               /\ ~loading =>
                    /\ renderTotal.view = "price"
                    /\ renderTotal.total = totalPrice
                    /\ ~renderTotal.deposit.nan
                    /\ 200 * renderTotal.deposit.v - 100 <= totalPrice.v
                    /\ totalPrice.v < 200 * renderTotal.deposit.v + 100
                    /\ (totalPrice.v % 100 = 0 =>
                          renderTotal.deposit.v = ((totalPrice.v \div 100) + 1) \div 2)

C7_Witness ==
    /\ PriceRecomputed /\ ~loading
    /\ \E tier \in SelectedTiers : tier.price = Num(152500)
    /\ userCount = 1
    /\ totalPrice = Num(157500)
    /\ renderTotal.deposit = Num(788)

\* C8: whenever the price has been recomputed and the selected tier id
\* matches no tier of the current tier list, the total is 0 and the
\* custom-quote flag is false.
C8_NoTierSelected ==
    (PriceRecomputed /\ SelectedTiers = {})
        => (totalPrice = Num(0) /\ isCustomPricing = FALSE)

\* C9: whenever the price has been recomputed and a tier is selected, the
\* custom-quote flag is true exactly when the user count is above 50, and
\* above 50 the panel shows "Custom Quote" and no numeric total or deposit.
C9_CustomQuoteMode ==
    (PriceRecomputed /\ SelectedTiers # {})
        => /\ isCustomPricing = (userCount > 50)
           /\ userCount > 50 =>
                /\ renderTotal.view # "price"
                /\ ~loading => renderTotal.view = "customQuote"

C9_Witness ==
    /\ PriceRecomputed /\ SelectedTiers # {} /\ ~loading
    /\ userCount = 51
    /\ isCustomPricing
    /\ totalPrice = Num(85000)
    /\ renderTotal.view = "customQuote"

\* C13: every createCart call is made by handleGetStarted with the variant
\* id the resolver returns for the selected product and the user count of
\* that moment, quantity 1, the one attribute "User Count" holding the decimal
\* string of that count, and the fixed selling plan; a call in flight changes
\* only by being answered.
C13_CheckoutPayload ==
    [][ cartCalls' # cartCalls =>
          \/ /\ lastEvent' \in {"cartResolved", "cartRejected"}
             /\ cartCalls' = Tail(cartCalls)
          \/ /\ lastEvent' = "handleGetStarted"
             /\ \E product \in SelectedProducts :
                   cartCalls' = Append(cartCalls,
                      [variantId |-> findVariantForUserCount(product, userCount),
                       quantity |-> 1,
                       customAttributes |->
                          << [key |-> "User Count", value |-> ToString(userCount)] >>,
                       sellingPlanId |-> "gid://shopify/SellingPlan/3226403001"]) ]_vars

C13_Witness ==
    /\ cartCalls =
          << [variantId |-> "gid://shopify/ProductVariant/1011", quantity |-> 1,
              customAttributes |-> << [key |-> "User Count", value |-> "7"] >>,
              sellingPlanId |-> "gid://shopify/SellingPlan/3226403001"] >>
    /\ userCount = 51
    /\ lastEvent = "typeCount"

\* C14: while a submission is under way (from handleGetStarted's call of
\* createCart until the call has failed or the page has been redirected) the
\* busy flag is set and the submit button is disabled; at most one createCart
\* call is outstanding, and none is left once the page has been redirected.
C14_NoDuplicateSubmission ==
    /\ Len(cartCalls) <= 1
    /\ cartCalls # <<>> => (Alive /\ isSubmitting /\ submitDisabled)
    /\ (Alive /\ isSubmitting) => cartCalls # <<>>
    /\ ~Alive => cartCalls = <<>>

C14_Witness ==
    /\ Len(cartCalls) = 1 /\ isSubmitting /\ submitDisabled
    /\ selectedAnimation # "" /\ ~loading /\ userCount = 2
    /\ lastEvent = "increment"

\* C15: a submission that fails, by createCart failing or by the handler
\* throwing before the call, leaves an error message in the error state, the
\* page on the pricing page, the selected tier and the user count as they
\* were, the busy flag false and the submit button enabled.
C15_FailedCheckout ==
    [][ ( \/ lastEvent' = "cartRejected"
          \/ (lastEvent' = "handleGetStarted" /\ cartCalls' = cartCalls) )
        => /\ error' # Null
           /\ Len(error') > Len("Error: ")
           /\ SubSeq(error', 1, Len("Error: ")) = "Error: "
           /\ location' = PricingPage
           /\ selectedAnimation' = selectedAnimation
           /\ userCount' = userCount
           /\ isSubmitting' = FALSE
           /\ ~submitDisabled' ]_vars

C15_Witness ==
    /\ lastEvent = "cartRejected"
    /\ error = "Error: Failed to create cart"
    /\ location = PricingPage
    /\ selectedAnimation = "gid://shopify/Product/103" /\ userCount = 7
    /\ ~isSubmitting /\ ~submitDisabled

\* C16: under FairSpec every submission under way leads to the busy flag
\* being false with either the page redirected to the checkout URL or the
\* createCart error in the error state.
C16_SubmissionCompletes ==
    isSubmitting ~>
        /\ ~isSubmitting
        /\ \/ (lastEvent = "cartResolved" /\ location = CheckoutUrl)
           \/ /\ lastEvent = "cartRejected"
              /\ error = "Error: Failed to create cart"
              /\ location = PricingPage

C16_Witness ==
    /\ lastEvent = "cartResolved" /\ location = CheckoutUrl
    /\ ~isSubmitting /\ cartCalls = <<>>

\* C17: under FairSpec, from every initial configuration (products supplied
\* by the caller or fetched) the component reaches loading = false, where the
\* calculator is rendered in place of the loading placeholder.
C17_LoadingEnds == <>(loading = FALSE /\ renderTotal.view # "loading")

\* the products prop has been null since the component was mounted
NeverSupplied == initialProducts = <<>> /\ propChanges = 0
\* the messages a failed catalog request leaves in the error state
FetchErrorMessages ==
    { "Error fetching products: API error: 500",
      "Error fetching products: Shopify unavailable",
      "Error fetching products: Collection not found",
      "Error fetching products: No products found in collection" }

\* C18: a failed catalog request leaves its message in the error state and
\* loading false; in a session in which no products are supplied, the tier
\* list is then empty, no tier is or can be selected, the submit button is
\* disabled and no createCart call is made.
C18_FailedFetch ==
    /\ lastEvent = "fetchRejected" => (error \in FetchErrorMessages /\ loading = FALSE)
    /\ (NeverSupplied /\ (lastEvent = "fetchRejected" \/ error \in FetchErrorMessages))
          => /\ loading = FALSE
             /\ animationPackages = <<>>
             /\ selectableIds = {}
             /\ selectedAnimation = ""
             /\ submitDisabled
             /\ cartCalls = <<>>
             /\ location = PricingPage

C18_Witness ==
    /\ NeverSupplied
    /\ error = "Error fetching products: Collection not found"
    /\ loading = FALSE /\ animationPackages = <<>>
    /\ lastEvent = "typeCount" /\ userCount = 7

\* the amount a catalog price string stands for, in hundredths
DecimalValue(price) ==
    CASE price = "800.00" -> 80000
      [] price = "1200.00" -> 120000
      [] price = "1525.00" -> 152500
      [] price = "1499.9" -> 149990

\* C19: once the "Process products" effect has run on a product list, the
\* tier list has one tier per product, in the same order, each with its
\* product's id, and with the price of the product's first variant as base
\* price, or 0 for a product without variants.
C19_CatalogNormalization ==
    (products # <<>> /\ "process" \notin effectsPending)
        => /\ Len(animationPackages) = Len(products[1])
           /\ \A i \in 1..Len(products[1]) :
                 /\ animationPackages[i].id = products[1][i].id
                 /\ animationPackages[i].price =
                       IF Len(products[1][i].variants) = 0
                       THEN [nan |-> FALSE, v |-> 0]
                       ELSE [nan |-> FALSE,
                             v |-> DecimalValue(products[1][i].variants[1].price)]

C19_Witness ==
    /\ products # <<>> /\ "process" \notin effectsPending
    /\ Len(products[1]) = 3
    /\ products[1][1] = BareProduct
    /\ products[1][2] = PremiumProductRepriced
    /\ products[1][3] = StarterProduct
    /\ animationPackages[1].price = [nan |-> FALSE, v |-> 0]
    /\ animationPackages[2].price = [nan |-> FALSE, v |-> 149990]
    /\ animationPackages[3].price = [nan |-> FALSE, v |-> 80000]

\* the user count a typed text leaves, given the count before
CountAfterTyping(text, before) ==
    CASE text = "" -> before
      [] text = "0" -> 1
      [] text = "-3" -> 1
      [] text = "7" -> 7
      [] text = "50" -> 50
      [] text = "51" -> 51

\* C20: the session starts with no tier selected and user count 1; every
\* step leaves the user count an integer >= 1; only the count controls change
\* it and only the radio group changes the selection; "-" at 1 leaves 1, "+"
\* adds 1, a typed value below 1 gives 1, a typed value that is no number
\* leaves the count as it is.
C20_SelectionState ==
    /\ selectedAnimation = "" /\ userCount = 1
    /\ [][ /\ userCount' \in Nat
           /\ userCount' >= 1
           /\ userCount' # userCount
                 => lastEvent' \in {"decrement", "increment", "typeCount"}
           /\ selectedAnimation' # selectedAnimation
                 => (lastEvent' = "selectPackage" /\ selectedAnimation' # "")
           /\ lastEvent' = "decrement"
                 => userCount' = (IF userCount = 1 THEN 1 ELSE userCount - 1)
           /\ lastEvent' = "increment" => userCount' = userCount + 1
           /\ \A text \in TypedValues :
                 typeCount(text) => userCount' = CountAfterTyping(text, userCount)
         ]_vars

C20_Witness ==
    /\ lastEvent = "typeCount" /\ userCount = 1 /\ userEvents = 3
    /\ selectedAnimation = "" /\ ~loading

----------------------------------------------------------------------------
(* Further properties of findVariantForUserCount *)

\* C21: a call of findVariantForUserCount leaves the product as it was (the
\* variant list, its order, every variant and its options), so the base
\* price taken from the first variant and a second resolution are the same
\* after the call as before.
C21_CatalogUnchanged ==
    [][ rPc' = "done"
          => /\ rProduct' = rProduct
             /\ formatPackage(rProduct') = formatPackage(rProduct)
             /\ findVariantForUserCount(rProduct', rUserCount') = rResult' ]_vars

C21_Witness ==
    /\ Resolved /\ rUserCount = 3 /\ Len(rVariants) = 3
    /\ HasCountString(rVariants[1], 1)
    /\ HasCountString(rVariants[2], 4)
    /\ HasCountString(rVariants[3], 2)
    /\ rVariants[1].id = "v1" /\ rVariants[2].id = "v2" /\ rVariants[3].id = "v3"
    /\ rResult = "v3"

\* C22: for u > 50 the custom-quote variant id returned is that of the label
\* getDisplayTitle gives the product's tier, the tier carrying the product's
\* id, title, handle and the price of its first variant.
C22_LabelAgreement ==
    (Resolved /\ rUserCount > 50 /\ Len(rVariants) >= 1)
        => rResult = QuoteIdOfLabel(getDisplayTitle(formatPackage(rProduct)))

\* C23: for u <= 50 and a product with at least one variant, the variant
\* returned has no "User Count" that parses to a number above u.
C23_NoOversizedVariant ==
    (Resolved /\ rUserCount <= 50 /\ Len(rVariants) >= 1)
        => \A i \in 1..Len(rVariants) :
              rResult = rVariants[i].id
                  => \A c \in ParsedCounts(rVariants[i]) : c <= rUserCount

----------------------------------------------------------------------------
(* Purchasable tiers *)

\* the catalog the session got at first is the one it still has
FixedCatalog == propChanges = 0

\* C24: with a fixed catalog the selected tier, if any, is one of the tier
\* list and is classified Starter or Premium, and no createCart call carries
\* the Essential custom-quote variant id.
C24_EssentialNotPurchasable ==
    FixedCatalog
        => /\ selectedAnimation # "" => SelectedTiers # {}
           /\ \A tier \in SelectedTiers :
                 getDisplayTitle(tier) \in {"Starter", "Premium"}
           /\ \A i \in 1..Len(cartCalls) :
                 cartCalls[i].variantId # "gid://shopify/ProductVariant/44872056373433"

C24_Witness ==
    /\ FixedCatalog
    /\ \E i \in 1..Len(animationPackages) :
          getDisplayTitle(animationPackages[i]) = "Essential"
    /\ selectedAnimation = "gid://shopify/Product/103"
    /\ userCount = 51
    /\ Len(cartCalls) = 1
    /\ cartCalls[1].variantId = "gid://shopify/ProductVariant/44872062795961"

====
